---- MODULE Spec2Model ----
(***************************************************************************)
(* Session registry and event broadcaster of the sms-bulk backends.        *)
(*                                                                         *)
(* The repository holds several near-duplicate Express servers.  The model *)
(* fixes one of them in Init (variable "variant") and runs its handlers:   *)
(*   srvA  src/server.js lines 1-585                                       *)
(*   srvC  src/server.js lines 913-1408                                    *)
(*   otp   src/whatsapp-otp.js lines 1-847                                 *)
(*   p4    src/unnamed/part_004 lines 1-501                                *)
(*   p5    src/unnamed/part_005 lines 232-545                              *)
(*   p5c   src/unnamed/part_005 lines 546-1136                             *)
(*   mgr   src/unnamed/part_003 (class WhatsAppManager)                    *)
(*   one6  src/unnamed/part_006 (one global client)                        *)
(* Every await of a handler is a step boundary: the part of a handler      *)
(* before an await and the part after it are separate steps, and other     *)
(* handlers may run in between.                                            *)
(***************************************************************************)
EXTENDS Integers, Sequences, FiniteSets, Bags, TLC

VARIABLES
    variant,          \* which backend runs
    now,              \* Date.now()
    whatsappClients,  \* account id -> client handle, 0 when the key is absent
    provider,         \* handle -> the provider client constructed under it
    sseClients,       \* account id -> sequence of [id, res]
    chans,            \* res -> [open, log]: an SSE response stream
    fsPaths,          \* the credential artifacts on disk
    accountsDb,       \* account id -> [n, status]: the Account collection
    tasks,            \* continuations of lifecycle handlers awaiting a promise
    reqs              \* HTTP requests whose handler awaits, and their answers

vars == <<variant, now, whatsappClients, provider, sseClients, chans, fsPaths,
          accountsDb, tasks, reqs>>

(***************************************************************************)
(* Bounds of the model.                                                    *)
(***************************************************************************)
MaxClients == 2
MaxSubs == 2
MaxRequests == 2
\* client.initialize() calls on one client
MaxRuns == 2
\* clients of the scoped specifications that watch one client
OneClient == 1
\* elements of req.body.messages
MaxMessages == 6
\* bulk requests in one run
MaxBatches == 1
\* null elements of one array
MaxNulls == 1

(***************************************************************************)
(* Account identifiers are strings; a string is a sequence of characters.  *)
(***************************************************************************)
Whitespace == {" ", "\t"}

\* the account the backends fall back to and start at boot
Default == <<"default">>

AccountIds == { Default, <<"b", " ", "c">>, <<>> }

MultiVariants == {"srvA", "srvC", "otp", "p4", "p5", "p5c", "mgr"}

\* the backends with one global client and no account identifiers; the model
\* keeps their client under the key Default
SingleVariants == {"one6"}

Variants == MultiVariants \cup SingleVariants

\* !accountId
IsEmpty(id) == id = <<>>

\* /\s/.test(accountId)
HasWhitespace(id) == \E i \in DOMAIN id : id[i] \in Whitespace

\* accountId.includes(" ")
IncludesSpace(id) == \E i \in DOMAIN id : id[i] = " "

(***************************************************************************)
(* Which backends do what.                                                 *)
(***************************************************************************)
\* client.isReady is kept on the handle
HasIsReady(v) == v \in {"p4", "p5", "p5c", "one6"}

\* the Account collection is used
HasDb(v) == v \in {"srvA", "srvC", "p4", "p5", "p5c"}

\* the lifecycle handlers await their findOneAndUpdate inside try/catch
CatchesDb(v) == v = "srvA"

\* the findOneAndUpdate query is built but neither awaited nor executed
DropsQuery(v) == v = "p5"

\* the qr handler awaits qrcode.toDataURL inside try/catch
CatchesQr(v) == v \in {"srvA", "srvC", "otp", "mgr"}

\* the qr handler persists status "initialized"
QrPersists(v) == v \in {"srvA", "srvC"}

\* client.initialize() has a .catch that broadcasts "error"
CatchesInit(v) == v \in {"srvA", "srvC", "otp", "p4", "p5c"}

\* a write that throws is caught by the broadcaster
CatchesWrite(v) == v # "one6"

NoClient == 0

NoTask ==
    [k |-> "none", c |-> 0, a |-> <<>>, st |-> "", upsert |-> FALSE,
     then |-> "none"]

(***************************************************************************)
(* The file system.  A path is a sequence of components, a component a     *)
(* string.                                                                 *)
(***************************************************************************)
WwebjsAuth == <<".wwebjs_auth">>

\* `session-${accountId}`
SessionName(a) == <<"session-">> \o a

\* path.join(SESSIONS_DIR, accountId) of WhatsAppManager
SessionDir(a) == << <<"sessions">>, a >>

\* where new LocalAuth({ clientId, dataPath }) keeps the credentials of the
\* client: <dataPath or .wwebjs_auth>/session-<clientId>
AuthPath(v, a) ==
    CASE v = "mgr" -> SessionDir(a) \o << SessionName(a) >>
      [] v = "one6" -> << WwebjsAuth, SessionName(<<"bulk-sender">>) >>
      [] OTHER -> << WwebjsAuth, SessionName(a) >>

\* the path the logout handler removes
LogoutPath(v, a) ==
    CASE v = "srvA" -> << WwebjsAuth, a \o <<"-session.json">> >>
      [] v = "mgr" -> SessionDir(a)
      [] v = "one6" -> << WwebjsAuth >>
      [] OTHER -> << WwebjsAuth, SessionName(a) >>

IsPrefix(p, q) == Len(p) <= Len(q) /\ SubSeq(q, 1, Len(p)) = p

\* fs.rmSync(p, { recursive: true }) / fs.unlinkSync(p)
Rm(fs, p) == {q \in fs : ~IsPrefix(p, q)}

(***************************************************************************)
(* The event broadcaster.  A world w is a record of the structures a       *)
(* handler mutates (wc, prov, sse, ch, fs), the handle a call returned     *)
(* (ret), the number of clients it constructed (made) and whether an       *)
(* exception left the broadcaster (threw).                                 *)
(***************************************************************************)
World ==
    [wc |-> whatsappClients, prov |-> provider, sse |-> sseClients,
     ch |-> chans, fs |-> fsPaths, ret |-> 0, made |-> 0, threw |-> FALSE]

\* res.write(...) on a stream: it throws when the stream is closed
WriteOk(ch, r) == ch[r].open

\* a stream that puts what it is given in front of what it holds
WrittenFirst(ch, r, type) == [ch EXCEPT ![r].log = <<type>> \o @]

Written(ch, r, type) == [ch EXCEPT ![r].log = Append(@, type)]

\* sseClients[accountId].forEach over the array the call started with; the
\* catch block re-assigns sseClients[accountId] to a filtered copy.
RECURSIVE ForEachWrite(_, _, _, _, _)
ForEachWrite(arr, i, cur, ch, type) ==
    IF i > Len(arr) THEN [sse |-> cur, ch |-> ch]
    ELSE IF WriteOk(ch, arr[i].res)
         THEN ForEachWrite(arr, i + 1, cur, Written(ch, arr[i].res, type), type)
         ELSE ForEachWrite(arr, i + 1,
                           SelectSeq(cur, LAMBDA x : x.id # arr[i].id), ch, type)

\* WhatsAppManager.emitEvent: one stream per account
EmitEventMgr(w, a, type) ==
    IF w.sse[a] = <<>> THEN w
    ELSE IF WriteOk(w.ch, w.sse[a][1].res)
         THEN [w EXCEPT !.ch = Written(w.ch, w.sse[a][1].res, type)]
         ELSE [w EXCEPT !.sse[a] = <<>>]

\* notifyClients of part_006: clients.forEach(c => c.res.write(message)) with
\* no try/catch; the first write that throws ends the loop
RECURSIVE NotifyClients(_, _, _, _)
NotifyClients(arr, i, w, type) ==
    IF i > Len(arr) THEN w
    ELSE IF WriteOk(w.ch, arr[i].res)
         THEN NotifyClients(arr, i + 1,
                            [w EXCEPT !.ch = Written(w.ch, arr[i].res, type)], type)
         ELSE [w EXCEPT !.threw = TRUE]

\* a broadcaster that writes to every open stream, of whatever account
BroadcastAcross(w, a, type) ==
    [w EXCEPT !.ch = [r \in DOMAIN w.ch |->
                         IF w.ch[r].open
                         THEN [w.ch[r] EXCEPT !.log = Append(@, type)]
                         ELSE w.ch[r]]]

\* a broadcaster that writes to every open stream of the account, whether or
\* not the stream is in the subscriber list
BroadcastAll(w, a, type) ==
    [w EXCEPT !.ch = [r \in DOMAIN w.ch |->
                         IF w.ch[r].acct = a /\ w.ch[r].open
                         THEN [w.ch[r] EXCEPT !.log = Append(@, type)]
                         ELSE w.ch[r]]]

\* broadcastEvent / broadcast / emitEvent / notifyClients
broadcastEvent(w, a, type) ==
    IF variant = "mgr" THEN EmitEventMgr(w, a, type)
    ELSE IF ~CatchesWrite(variant) THEN NotifyClients(w.sse[a], 1, w, type)
    ELSE LET r == ForEachWrite(w.sse[a], 1, w.sse[a], w.ch, type)
         IN  [w EXCEPT !.sse[a] = r.sse, !.ch = r.ch]

(***************************************************************************)
(* The session registry.                                                   *)
(***************************************************************************)
NewProvider(a) ==
    [acct |-> a, phase |-> "initializing", init |-> "pending", isReady |-> FALSE,
     runs |-> 1]

\* the early return of initializeWhatsAppClient / initializeClient
ReturnsExisting(v, w, a) ==
    IF v \in {"p5", "p5c"}
    THEN w.wc[a] # NoClient /\ w.prov[w.wc[a]].isReady
    ELSE w.wc[a] # NoClient

\* new Client(...); the handlers are wired; client.initialize() is started
Construct(w, a) ==
    LET h == Len(w.prov) + 1
        w1 == [w EXCEPT !.prov = Append(@, NewProvider(a)), !.wc[a] = h,
                        !.ret = h, !.made = @ + 1]
        w2 == IF variant = "mgr"
              THEN [w1 EXCEPT !.fs = @ \cup {SessionDir(a)}]
              ELSE w1
    IN  IF variant = "p5c" /\ AuthPath("p5c", a) \in w.fs
        THEN broadcastEvent(w2, a, <<"connected", h>>)
        ELSE w2

initializeWhatsAppClient(w, a) ==
    IF ReturnsExisting(variant, w, a)
    THEN LET w1 == [w EXCEPT !.ret = w.wc[a]]
         IN  IF HasIsReady(variant) /\ w.prov[w.wc[a]].isReady
             THEN broadcastEvent(w1, a, <<"ready", w.wc[a]>>)
             ELSE w1
    ELSE Construct(w, a)

CanConstruct == Len(provider) < MaxClients

\* where the ready flag of client c is kept: client.isReady of the client
\* itself, or the one `let isReady` of part_006, which outlives its clients
\* and is kept with the boot client
Flag(c) == IF variant \in SingleVariants THEN 1 ELSE c

\* the call either returns the registered client or may construct one more
CanInit(a) == ReturnsExisting(variant, World, a) \/ CanConstruct

Commit(w) ==
    /\ whatsappClients' = w.wc
    /\ provider' = w.prov
    /\ sseClients' = w.sse
    /\ chans' = w.ch
    /\ fsPaths' = w.fs


(***************************************************************************)
(* Initial state: the process has started.  Every backend initializes its  *)
(* "default" client at boot (part_006: its one client).                    *)
(***************************************************************************)
Init ==
    /\ variant \in Variants
    /\ now = 0
    /\ whatsappClients =
          [a \in AccountIds |->
              IF a = Default THEN 1 ELSE NoClient]
    /\ provider = <<NewProvider(Default)>>
    /\ sseClients = [a \in AccountIds |-> <<>>]
    /\ chans = <<>>
    /\ fsPaths = IF variant = "mgr" THEN {SessionDir(Default)} ELSE {}
    /\ accountsDb = [a \in AccountIds |-> [n |-> 0, status |-> "none"]]
    /\ tasks = {}
    /\ reqs = <<>>

\* Account.findOneAndUpdate({ accountId }, { status }, { upsert })
FindOneAndUpdate(db, a, st, upsert) ==
    IF db[a].n > 0 THEN [db EXCEPT ![a].status = st]
    ELSE IF upsert THEN [db EXCEPT ![a] = [n |-> 1, status |-> st]]
    ELSE db

(***************************************************************************)
(* HTTP requests.  A request is answered once: resp is 0 until then.       *)
(***************************************************************************)
\* kind, a: the route and the account identifier of the request; pc: the await
\* its handler stands at; c: the client it holds; resp: the status answered;
\* err: why it failed; to: the chat id it computed; sent: client.sendMessage
\* was invoked; rec, failrec: the status of the Message records it saved;
\* phone: the phone number of the body; wasReady: the client of the account
\* had reached ready when the request arrived
NewReq(kind, a) ==
    [kind |-> kind, a |-> a, pc |-> "done", c |-> NoClient, resp |-> 0,
     err |-> "none", to |-> <<>>, sent |-> FALSE, rec |-> "none",
     failrec |-> "none", phone |-> <<>>, wasReady |-> FALSE]

CanRequest == Len(reqs) < MaxRequests

Answered(kind, a, code) == [NewReq(kind, a) EXCEPT !.resp = code]

Pending(kind, a, pc, c) == [NewReq(kind, a) EXCEPT !.pc = pc, !.c = c]

\* res.status(code).json(...) of a request that was waiting
Answer(rq, rid, code) == [rq EXCEPT ![rid].pc = "done", ![rid].resp = code]

\* the catch block answers 500 with the error
Fail(rq, rid, why) ==
    [rq EXCEPT ![rid].pc = "done", ![rid].resp = 500, ![rid].err = why]

\* the requests awaiting, at pc, a promise of client c are all answered
AnswerWaiting(rq, pc, c, code) ==
    [i \in DOMAIN rq |->
        IF rq[i].pc = pc /\ rq[i].c = c
        THEN [rq[i] EXCEPT !.pc = "done", !.resp = code]
        ELSE rq[i]]

(***************************************************************************)
(* POST /api/accounts/activate                                             *)
(***************************************************************************)
Activate(a) ==
    /\ variant \in MultiVariants \ {"mgr"}
    /\ CanRequest
    /\ IF IsEmpty(a)
       THEN /\ reqs' = Append(reqs, Answered("activate", a, 400))
            /\ UNCHANGED <<whatsappClients, provider, sseClients, chans, fsPaths>>
       ELSE /\ CanInit(a)
            /\ Commit(initializeWhatsAppClient(World, a))
            /\ reqs' = Append(reqs, Answered("activate", a, 200))
    /\ UNCHANGED <<variant, now, accountsDb, tasks>>

\* POST /api/accounts/activate of WhatsAppManager: the handler awaits
\* initializeClient, which awaits client.initialize() of a client it constructs
ActivateMgr(a) ==
    /\ variant = "mgr"
    /\ CanRequest
    /\ IF IsEmpty(a)
       THEN /\ reqs' = Append(reqs, Answered("activate", a, 400))
            /\ UNCHANGED <<whatsappClients, provider, sseClients, chans, fsPaths>>
       ELSE /\ CanInit(a)
            /\ LET w == initializeWhatsAppClient(World, a)
               IN  /\ Commit(w)
                   /\ reqs' = Append(reqs,
                                 IF w.made = 0 THEN Answered("activate", a, 200)
                                 ELSE Pending("activate", a, "init", w.ret))
    /\ UNCHANGED <<variant, now, accountsDb, tasks>>

(***************************************************************************)
(* POST /api/accounts                                                      *)
(***************************************************************************)
\* the format check of the create route
RejectsFormat(v, a) ==
    CASE v = "p4" -> HasWhitespace(a)
      [] v \in {"p5", "p5c"} -> IncludesSpace(a)
      [] OTHER -> FALSE

\* the route looks the account up in the Account collection
CreateUsesDb(v) == HasDb(v)

CreateStart(a) ==
    /\ variant \in MultiVariants \ {"mgr"}
    /\ CanRequest
    /\ IF IsEmpty(a) \/ RejectsFormat(variant, a)
       THEN /\ reqs' = Append(reqs, Answered("create", a, 400))
            /\ UNCHANGED <<whatsappClients, provider, sseClients, chans, fsPaths>>
       ELSE IF CreateUsesDb(variant)
       THEN /\ reqs' = Append(reqs, Pending("create", a, "find", NoClient))
            /\ UNCHANGED <<whatsappClients, provider, sseClients, chans, fsPaths>>
       ELSE IF whatsappClients[a] # NoClient
       THEN /\ reqs' = Append(reqs, Answered("create", a, 400))
            /\ UNCHANGED <<whatsappClients, provider, sseClients, chans, fsPaths>>
       ELSE /\ CanInit(a)
            /\ Commit(initializeWhatsAppClient(World, a))
            /\ reqs' = Append(reqs, Answered("create", a, 200))
    /\ UNCHANGED <<variant, now, accountsDb, tasks>>

\* POST /api/accounts of WhatsAppManager awaits initializeClient
CreateMgr(a) ==
    /\ variant = "mgr"
    /\ CanRequest
    /\ IF IsEmpty(a)
       THEN /\ reqs' = Append(reqs, Answered("create", a, 400))
            /\ UNCHANGED <<whatsappClients, provider, sseClients, chans, fsPaths>>
       ELSE /\ CanInit(a)
            /\ LET w == initializeWhatsAppClient(World, a)
               IN  /\ Commit(w)
                   /\ reqs' = Append(reqs,
                                 IF w.made = 0 THEN Answered("create", a, 200)
                                 ELSE Pending("create", a, "init", w.ret))
    /\ UNCHANGED <<variant, now, accountsDb, tasks>>

\* await Account.findOne({ accountId }) settles
CreateFound(rid, ok) ==
    /\ reqs[rid].kind = "create"
    /\ reqs[rid].pc = "find"
    /\ reqs' = IF ~ok THEN Fail(reqs, rid, "io")
               ELSE IF accountsDb[reqs[rid].a].n > 0 THEN Answer(reqs, rid, 400)
               ELSE [reqs EXCEPT ![rid].pc = "save"]
    /\ UNCHANGED <<variant, now, whatsappClients, provider, sseClients, chans,
                   fsPaths, accountsDb, tasks>>

\* await new Account({ accountId }).save() settles; accountId is unique: true,
\* so the save of a second record with the same id is rejected
CreateSaved(rid, ok) ==
    /\ reqs[rid].kind = "create"
    /\ reqs[rid].pc = "save"
    /\ LET a == reqs[rid].a
       IN  IF ~ok
           THEN /\ reqs' = Fail(reqs, rid, "io")
                /\ UNCHANGED <<whatsappClients, provider, sseClients, chans,
                               fsPaths, accountsDb>>
           ELSE IF accountsDb[a].n > 0
           THEN /\ reqs' = Fail(reqs, rid, "duplicate")
                /\ UNCHANGED <<whatsappClients, provider, sseClients, chans,
                               fsPaths, accountsDb>>
           ELSE /\ CanInit(a)
                /\ accountsDb' = [accountsDb EXCEPT
                                    ![a] = [n |-> 1, status |-> "initialized"]]
                /\ Commit(initializeWhatsAppClient(World, a))
                /\ reqs' = Answer(reqs, rid, 200)
    /\ UNCHANGED <<variant, now, tasks>>

(***************************************************************************)
(* POST /api/accounts/logout, POST /logout                                 *)
(***************************************************************************)
\* the handler awaits client.logout() before client.destroy()
LogsOutFirst(v) == v \in {"mgr", "one6"}

\* the whole body is one try block that removes the credentials and updates
\* the Account even when the registry has no client
LogoutAlwaysCleans(v) == v = "p5"

LogoutStart(a) ==
    /\ CanRequest
    /\ variant \in SingleVariants => a = Default
    /\ IF IsEmpty(a)
       THEN /\ reqs' = Append(reqs, Answered("logout", a, 400))
            /\ UNCHANGED fsPaths
       ELSE IF whatsappClients[a] # NoClient
       THEN /\ reqs' = Append(reqs,
                          Pending("logout", a,
                                  IF LogsOutFirst(variant) THEN "logout" ELSE "destroy",
                                  whatsappClients[a]))
            /\ UNCHANGED fsPaths
       ELSE IF LogoutAlwaysCleans(variant)
       THEN /\ fsPaths' = Rm(fsPaths, LogoutPath(variant, a))
            /\ reqs' = Append(reqs, Pending("logout", a, "update", NoClient))
       ELSE /\ reqs' = Append(reqs, Answered("logout", a, 200))
            /\ UNCHANGED fsPaths
    /\ UNCHANGED <<variant, now, whatsappClients, provider, sseClients, chans,
                   accountsDb, tasks>>

\* await client.logout() settles
LogoutLoggedOut(rid, ok) ==
    /\ reqs[rid].kind = "logout"
    /\ reqs[rid].pc = "logout"
    /\ reqs' = IF ok THEN [reqs EXCEPT ![rid].pc = "destroy"]
               ELSE Fail(reqs, rid, "io")
    /\ UNCHANGED <<variant, now, whatsappClients, provider, sseClients, chans,
                   fsPaths, accountsDb, tasks>>

\* await client.destroy() settles; then the entry is deleted and the session
\* path removed; part_006 calls initClient() again
LogoutDestroyed(rid, ok) ==
    /\ reqs[rid].kind = "logout"
    /\ reqs[rid].pc = "destroy"
    /\ LET a == reqs[rid].a
           c == reqs[rid].c
           w0 == [World EXCEPT !.prov[c].phase = "destroyed",
                               !.wc[a] = NoClient,
                               !.fs = Rm(@, LogoutPath(variant, a))]
       IN  IF ~ok
           THEN /\ reqs' = Fail(reqs, rid, "io")
                /\ UNCHANGED <<whatsappClients, provider, sseClients, chans, fsPaths>>
           ELSE IF variant \in SingleVariants
           THEN /\ CanConstruct
                /\ Commit(initializeWhatsAppClient(w0, a))
                /\ reqs' = Answer(reqs, rid, 200)
           ELSE /\ Commit(w0)
                /\ reqs' = IF HasDb(variant) THEN [reqs EXCEPT ![rid].pc = "update"]
                           ELSE Answer(reqs, rid, 200)
    /\ UNCHANGED <<variant, now, accountsDb, tasks>>

\* await Account.findOneAndUpdate(..., { status: "disconnected" }) settles
LogoutUpdated(rid, ok) ==
    /\ reqs[rid].kind = "logout"
    /\ reqs[rid].pc = "update"
    /\ accountsDb' = IF ok
                     THEN FindOneAndUpdate(accountsDb, reqs[rid].a, "disconnected", FALSE)
                     ELSE accountsDb
    /\ reqs' = IF ok THEN Answer(reqs, rid, 200) ELSE Fail(reqs, rid, "io")
    /\ UNCHANGED <<variant, now, whatsappClients, provider, sseClients, chans,
                   fsPaths, tasks>>

(***************************************************************************)
(* POST /api/accounts/:accountId/refresh                                   *)
(***************************************************************************)
HasRefresh(v) == v \in {"otp", "p4", "p5", "p5c"}

RefreshStart(a) ==
    /\ HasRefresh(variant)
    /\ CanRequest
    /\ ~IsEmpty(a)
    /\ reqs' = Append(reqs,
                  IF whatsappClients[a] = NoClient THEN Answered("refresh", a, 400)
                  ELSE Pending("refresh", a, "destroy", whatsappClients[a]))
    /\ UNCHANGED <<variant, now, whatsappClients, provider, sseClients, chans,
                   fsPaths, accountsDb, tasks>>

\* .destroy().then(() => { delete ...; initializeWhatsAppClient(accountId) })
RefreshDestroyed(rid, ok) ==
    /\ reqs[rid].kind = "refresh"
    /\ reqs[rid].pc = "destroy"
    /\ IF ok
       THEN /\ CanConstruct
            /\ Commit(initializeWhatsAppClient(
                         [World EXCEPT !.prov[reqs[rid].c].phase = "destroyed",
                                       !.wc[reqs[rid].a] = NoClient],
                         reqs[rid].a))
            /\ reqs' = Answer(reqs, rid, 200)
       ELSE /\ reqs' = Fail(reqs, rid, "io")
            /\ UNCHANGED <<whatsappClients, provider, sseClients, chans, fsPaths>>
    /\ UNCHANGED <<variant, now, accountsDb, tasks>>

(***************************************************************************)
(* POST /api/send-message                                                  *)
(***************************************************************************)
Digit == {"0", "1", "2", "3", "4", "5", "6", "7", "8", "9"}

\* the phone numbers requests carry: none, a short one, a ten-digit one, one
\* written with its country code and punctuation, and a ten-digit one with
\* "91" inside
Phones ==
    { <<>>, <<"1", "2", "3">>,
      <<"9", "8", "7", "6", "5", "4", "3", "2", "1", "0">>,
      <<"+", "5", "5", " ", "9", "8", "7", "6", "5", "-", "4", "3", "2", "1", "0">>,
      <<"8", "7", "9", "1", "2", "3", "4", "5", "6", "0">> }

\* phone.replace(/\D/g, "")
Digits(phone) == SelectSeq(phone, LAMBDA ch : ch \in Digit)

StartsWith(str, pre) == IsPrefix(pre, str)

Includes(str, sub) ==
    \E i \in 1..(Len(str) - Len(sub) + 1) : SubSeq(str, i, i + Len(sub) - 1) = sub

\* formattedPhone.length < 10 is answered 400
ChecksLength(v) == v \in {"srvA", "srvC", "mgr"}

\* the country code the handler puts in front of the digits
WithCountryCode(v, d) ==
    CASE v = "srvA" ->
           IF ~StartsWith(d, <<"5", "5">>) /\ Len(d) >= 10 THEN <<"5", "5">> \o d ELSE d
      [] v = "srvC" ->
           IF ~StartsWith(d, <<"5", "5">>) THEN <<"5", "5">> \o d ELSE d
      [] v = "mgr" ->
           IF ~StartsWith(d, <<"9", "1">>) /\ Len(d) >= 10 THEN <<"9", "1">> \o d ELSE d
      [] v = "p5" ->
           IF Includes(d, <<"9", "1">>) THEN d ELSE <<"9", "1">> \o d
      [] OTHER ->
           IF ~StartsWith(d, <<"5", "5">>) /\ ~StartsWith(d, <<"9", "1">>)
           THEN <<"9", "1">> \o d ELSE d

\* the chat id handed to client.sendMessage
FormatPhone(v, phone) == WithCountryCode(v, Digits(phone)) \o <<"@c.us">>

\* the handler refuses a client that is not ready
ChecksReady(v) == v = "p5"

\* the handler saves a Message record with status "sending" before it sends
SavesRecord(v) == v \in {"srvA", "srvC"}

\* the status enum of src/models/Message.js
MessageStatuses == {"sent", "failed", "delivered"}

\* the catch block reads formattedPhone, which is declared inside the try
\* block: the read throws and the request is never answered
CatchThrows(v) == v = "srvA"

\* the catch block of the handler starts: it saves a "failed" record where
\* the handler keeps records, and answers 500
Caught(rq, rid, why) ==
    IF ~SavesRecord(variant) THEN Fail(rq, rid, why)
    ELSE IF CatchThrows(variant)
         THEN [rq EXCEPT ![rid].pc = "dead", ![rid].err = why]
         ELSE [rq EXCEPT ![rid].pc = "savefail", ![rid].err = why]

\* accountId is "" when the body carries an empty one; a body without
\* accountId is a request for "default"
SendStart(a, phone) ==
    /\ variant \in MultiVariants
    /\ CanRequest
    /\ LET c == whatsappClients[a]
           d == Digits(phone)
           rq == [Pending("send", a, "send", c) EXCEPT
                     !.to = FormatPhone(variant, phone)]
           rsp == IF phone = <<>> THEN Answered("send", a, 400)
                  ELSE IF c = NoClient
                          \/ (ChecksReady(variant) /\ ~provider[c].isReady)
                       THEN [Answered("send", a, 400) EXCEPT !.err = "notready"]
                  ELSE IF ChecksLength(variant) /\ Len(d) < 10
                       THEN Answered("send", a, 400)
                  ELSE IF SavesRecord(variant) THEN [rq EXCEPT !.pc = "save"]
                  ELSE [rq EXCEPT !.sent = TRUE]
       IN  reqs' = Append(reqs,
              [rsp EXCEPT !.phone = phone,
                          !.wasReady = IF c = NoClient THEN FALSE
                                       ELSE provider[c].phase = "ready"])
    /\ UNCHANGED <<variant, now, whatsappClients, provider, sseClients, chans,
                   fsPaths, accountsDb, tasks>>

\* await messageRecord.save() of the "sending" record settles; the save is
\* rejected when the schema does not allow the status
SendRecordSaved(rid, ok) ==
    /\ reqs[rid].kind = "send"
    /\ reqs[rid].pc = "save"
    /\ reqs' = IF ~ok THEN Caught(reqs, rid, "io")
               ELSE IF "sending" \notin MessageStatuses
                    THEN Caught(reqs, rid, "validation")
               ELSE [reqs EXCEPT ![rid].rec = "sending", ![rid].pc = "send",
                                 ![rid].sent = TRUE]
    /\ UNCHANGED <<variant, now, whatsappClients, provider, sseClients, chans,
                   fsPaths, accountsDb, tasks>>

\* await client.sendMessage(...) settles
SendSettled(rid, ok) ==
    /\ reqs[rid].kind = "send"
    /\ reqs[rid].pc = "send"
    /\ reqs' = IF ~ok THEN Caught(reqs, rid, "send")
               ELSE IF SavesRecord(variant) THEN [reqs EXCEPT ![rid].pc = "update"]
               ELSE Answer(reqs, rid, 200)
    /\ UNCHANGED <<variant, now, whatsappClients, provider, sseClients, chans,
                   fsPaths, accountsDb, tasks>>

\* await messageRecord.save() of the "delivered" record settles
SendDelivered(rid, ok) ==
    /\ reqs[rid].kind = "send"
    /\ reqs[rid].pc = "update"
    /\ reqs' = IF ok THEN Answer([reqs EXCEPT ![rid].rec = "delivered"], rid, 200)
               ELSE Caught(reqs, rid, "io")
    /\ UNCHANGED <<variant, now, whatsappClients, provider, sseClients, chans,
                   fsPaths, accountsDb, tasks>>

\* await failedRecord.save() in the catch block settles; when it rejects, the
\* catch block throws and the request is never answered
SendFailureSaved(rid, ok) ==
    /\ reqs[rid].kind = "send"
    /\ reqs[rid].pc = "savefail"
    /\ reqs' = IF ok
               THEN [reqs EXCEPT ![rid].failrec = "failed", ![rid].pc = "done",
                                 ![rid].resp = 500]
               ELSE [reqs EXCEPT ![rid].pc = "dead"]
    /\ UNCHANGED <<variant, now, whatsappClients, provider, sseClients, chans,
                   fsPaths, accountsDb, tasks>>

(***************************************************************************)
(* POST /send-messages of the one-client backends.  The handler starts      *)
(* `concurrency` chains of sendNext that share the cursor idx and the array *)
(* results; Promise.all joins them and the handler answers with results.    *)
(***************************************************************************)
concurrency == 5

\* an element of the array: an object that carries a phone, or null
Msg == "msg"
Null == "null"

\* req.body.messages; <<>> also stands for a body without an array
Batches ==
    {m \in UNION {[1..n -> {Msg, Null}] : n \in 0..MaxMessages} :
        Cardinality({i \in DOMAIN m : m[i] = Null}) <= MaxNulls}

\* how a call of sendMessageOrMedia settles: sent, { skipped: true }, or throws
Outcomes == {"sent", "skipped", "threw"}

\* let isReady of part_006: the flag of the one client
isReady == provider[1].isReady

\* the chains started by messages.map(sendNext): one for every element
PoolPerMessage(messages) == 1..Len(messages)

\* Array(concurrency).fill(0).map(sendNext)
Pool(messages) == 1..concurrency

\* calls: the sendMessageOrMedia calls that have not settled, as <<chain,
\* index>>; taken, tried: how often an element was read from the array and
\* how often it was passed to sendMessageOrMedia; blind: the elements passed
\* to the client while isReady was false.  results holds the entries pushed,
\* each with its fields phone (here the index of the element) and success,
\* without their order
NewBulk(messages) ==
    [NewReq("bulk", Default) EXCEPT !.pc = "run"] @@
    [messages |-> messages, idx |-> 0, results |-> EmptyBag,
     chains |-> [k \in Pool(messages) |-> "new"], calls |-> {},
     taken |-> [i \in DOMAIN messages |-> 0],
     tried |-> [i \in DOMAIN messages |-> 0],
     blind |-> {}]

\* async function sendNext() up to its first await; `const { phone, message,
\* media } = messages[idx++]` throws on null, outside the try block
sendNext(b, k, ready) ==
    IF b.idx >= Len(b.messages) THEN [b EXCEPT !.chains[k] = "returned"]
    ELSE LET i == b.idx + 1
             b1 == [b EXCEPT !.idx = i, !.taken[i] = @ + 1]
         IN  IF b.messages[i] = Null
             THEN [b1 EXCEPT !.chains[k] = "rejected"]
             ELSE [b1 EXCEPT !.chains[k] = "sending",
                             !.calls = @ \cup {<<k, i>>},
                             !.tried[i] = @ + 1,
                             !.blind = IF ready THEN @ ELSE @ \cup {i}]

\* .map(sendNext): the chains start one after the other, in one turn
RECURSIVE StartChains(_, _, _)
StartChains(b, ks, ready) ==
    IF ks = {} THEN b
    ELSE LET k == CHOOSE x \in ks : \A y \in ks : x <= y
         IN  StartChains(sendNext(b, k, ready), ks \ {k}, ready)

\* await Promise.all(...); res.json({ results }).  Promise.all rejects with
\* its first rejected chain, and the handler has no catch: the router either
\* passes the rejection on to its error handler (express 5) or the request
\* is left unanswered (express 4)
Joined(b, forwards) ==
    IF b.pc # "run" THEN b
    ELSE IF \E k \in DOMAIN b.chains : b.chains[k] = "rejected"
         THEN IF forwards THEN [b EXCEPT !.pc = "done", !.resp = 500,
                                           !.err = "throw"]
              ELSE [b EXCEPT !.pc = "dead", !.err = "throw"]
    ELSE IF \A k \in DOMAIN b.chains : b.chains[k] = "returned"
         THEN [b EXCEPT !.pc = "done", !.resp = 200]
    ELSE b

\* the request got past its checks and started its chains
Batch(rid) == reqs[rid].kind = "bulk" /\ "chains" \in DOMAIN reqs[rid]

\* app.post("/send-messages")
BulkStart(messages, forwards) ==
    /\ variant \in SingleVariants
    /\ CanRequest
    /\ Cardinality({rid \in DOMAIN reqs : reqs[rid].kind = "bulk"}) < MaxBatches
    /\ reqs' = Append(reqs,
          IF ~isReady THEN [Answered("bulk", Default, 503) EXCEPT !.err = "notready"]
          ELSE IF Len(messages) = 0 THEN Answered("bulk", Default, 400)
          ELSE Joined(StartChains(NewBulk(messages), Pool(messages), isReady),
                      forwards))
    /\ UNCHANGED <<variant, now, whatsappClients, provider, sseClients, chans,
                   fsPaths, accountsDb, tasks>>

\* await sendMessageOrMedia(...) of a chain settles: results.push(...), then
\* the chain waits for its delay
BulkSendSettles(rid, k, i, how) ==
    /\ Batch(rid)
    /\ <<k, i>> \in reqs[rid].calls
    /\ reqs' = [reqs EXCEPT ![rid].calls = @ \ {<<k, i>>},
                            ![rid].results = @ (+) SetToBag({<<i, how = "sent">>}),
                            ![rid].chains[k] = "delay"]
    /\ UNCHANGED <<variant, now, whatsappClients, provider, sseClients, chans,
                   fsPaths, accountsDb, tasks>>

\* the timer of setTimeout(r, 200 + Math.random() * 300) fires:
\* return sendNext()
BulkDelayFires(rid, k, forwards) ==
    /\ Batch(rid)
    /\ k \in DOMAIN reqs[rid].chains
    /\ reqs[rid].chains[k] = "delay"
    /\ reqs' = [reqs EXCEPT ![rid] = Joined(sendNext(@, k, isReady), forwards)]
    /\ UNCHANGED <<variant, now, whatsappClients, provider, sseClients, chans,
                   fsPaths, accountsDb, tasks>>

(***************************************************************************)
(* GET /api/accounts/:accountId/events                                     *)
(***************************************************************************)
NewChan(a, id) == [open |-> TRUE, notified |-> FALSE, acct |-> a, id |-> id,
                   log |-> <<>>]

\* Only the order of the clock's readings matters: dt is the time that went
\* by since the previous reading, and the readings are numbered densely.
ClockReads(dt) == now + dt <= Len(chans)

\* The route parameter of a matched request is never the empty string.
Subscribe(a, dt) ==
    /\ variant \in MultiVariants \ {"mgr"}
    /\ ~IsEmpty(a)
    /\ Len(chans) < MaxSubs
    /\ CanInit(a)
    /\ ClockReads(dt)
    /\ now' = now + dt
    /\ LET r == Len(chans) + 1
           clientId == now + dt
           w0 == [World EXCEPT !.ch = Append(@, NewChan(a, clientId)),
                               !.sse[a] = Append(@, [id |-> clientId, res |-> r])]
           w1 == [w0 EXCEPT !.ch = Written(w0.ch, r, <<"connected", 0>>)]
       IN  Commit(initializeWhatsAppClient(w1, a))
    /\ UNCHANGED <<variant, accountsDb, tasks, reqs>>

\* WhatsAppManager.createEventStream
SubscribeMgr(a) ==
    /\ variant = "mgr"
    /\ ~IsEmpty(a)
    /\ Len(chans) < MaxSubs
    /\ LET r == Len(chans) + 1
       IN  /\ chans' = Written(Append(chans, NewChan(a, 0)), r, <<"connected", 0>>)
           /\ sseClients' = [sseClients EXCEPT ![a] = <<[id |-> 0, res |-> r]>>]
    /\ UNCHANGED <<variant, now, whatsappClients, provider, fsPaths,
                   accountsDb, tasks, reqs>>

\* GET /backend-events of part_006: no "connected" event, no initialization
SubscribeOne(dt) ==
    /\ variant \in SingleVariants
    /\ Len(chans) < MaxSubs
    /\ ClockReads(dt)
    /\ now' = now + dt
    /\ LET r == Len(chans) + 1
       IN  /\ chans' = Append(chans, NewChan(Default, now + dt))
           /\ sseClients' = [sseClients EXCEPT
                                ![Default] = Append(@, [id |-> now + dt, res |-> r])]
    /\ UNCHANGED <<variant, whatsappClients, provider, fsPaths, accountsDb,
                   tasks, reqs>>

\* the listener's connection goes away: writes to the stream throw from now on
ChannelBreak(r) ==
    /\ chans[r].open
    /\ chans' = [chans EXCEPT ![r].open = FALSE]
    /\ UNCHANGED <<variant, now, whatsappClients, provider, sseClients,
                   fsPaths, accountsDb, tasks, reqs>>

\* req.on("close") / res.on("close")
CloseNotify(r) ==
    /\ ~chans[r].open
    /\ ~chans[r].notified
    /\ chans' = [chans EXCEPT ![r].notified = TRUE]
    /\ sseClients' =
          [sseClients EXCEPT ![chans[r].acct] =
              CASE variant = "mgr" -> <<>>
                [] variant \in SingleVariants -> SelectSeq(@, LAMBDA x : x.res # r)
                [] OTHER -> SelectSeq(@, LAMBDA x : x.id # chans[r].id)]
    /\ UNCHANGED <<variant, now, whatsappClients, provider, fsPaths,
                   accountsDb, tasks, reqs>>

(***************************************************************************)
(* The lifecycle handlers wired by initializeWhatsAppClient.  The provider *)
(* client walks initializing -> qr -> authenticated -> ready, and may      *)
(* report auth_failure or disconnected on the way.                         *)
(***************************************************************************)
\* a findOneAndUpdate the handler awaits
DbTask(c, a, st, upsert, then) ==
    [NoTask EXCEPT !.k = "db", !.c = c, !.a = a, !.st = st, !.upsert = upsert,
                   !.then = then]

\* the writes of { upsert: true } handlers
Upserts(v, st) ==
    \/ st = "initialized"
    \/ v \in {"p4", "p5c"} /\ st \in {"authenticated", "ready"}

\* which statuses a backend persists from its lifecycle handlers
Persists(v, st) ==
    /\ HasDb(v)
    /\ ~DropsQuery(v)
    /\ \/ st \in {"authenticated", "ready", "disconnected"}
       \/ st = "auth_failure" /\ v \in {"p4", "p5c"}

DbTasks(c, a, st, then) ==
    IF Persists(variant, st)
    THEN {DbTask(c, a, st, Upserts(variant, st), then)}
    ELSE {}

\* emitEvent(accountId, "status", ...) follows every event of WhatsAppManager
WithStatus(w, a, c) ==
    IF variant = "mgr" THEN broadcastEvent(w, a, <<"status", c>>) ELSE w

\* client.on("qr"): the handler first awaits qrcode.toDataURL(qr)
OnQr(c) ==
    /\ provider[c].phase = "initializing"
    /\ provider' = [provider EXCEPT ![c].phase = "qr"]
    /\ tasks' = tasks \cup {[NoTask EXCEPT !.k = "qr", !.c = c,
                                !.a = provider[c].acct]}
    /\ UNCHANGED <<variant, now, whatsappClients, sseClients, chans, fsPaths,
                   accountsDb, reqs>>

\* the rest of the qr handler, once toDataURL has settled
QrConverted(t, ok) ==
    /\ t \in tasks
    /\ t.k = "qr"
    /\ Commit(IF ok
              THEN broadcastEvent(
                      IF variant \in SingleVariants
                      THEN [World EXCEPT !.prov[Flag(t.c)].isReady = FALSE]
                      ELSE World, t.a, <<"qr", t.c>>)
              ELSE IF CatchesQr(variant)
                   THEN broadcastEvent(World, t.a, <<"error", t.c>>)
                   ELSE World)
    /\ tasks' = (tasks \ {t}) \cup
                (IF ok /\ QrPersists(variant)
                 THEN {DbTask(t.c, t.a, "initialized", TRUE, "none")}
                 ELSE {})
    /\ UNCHANGED <<variant, now, accountsDb, reqs>>

\* part_006 wires no "authenticated" handler
HandlesAuthenticated(v) == v \notin SingleVariants

\* client.on("authenticated"); the provider has stored the credentials
OnAuthenticated(c) ==
    /\ provider[c].phase \in {"initializing", "qr"}
    /\ LET a == provider[c].acct
           w0 == [World EXCEPT !.prov[c].phase = "authenticated",
                               !.fs = @ \cup {AuthPath(variant, a)}]
       IN  /\ Commit(IF HandlesAuthenticated(variant)
                     THEN WithStatus(broadcastEvent(w0, a, <<"authenticated", c>>), a, c)
                     ELSE w0)
           /\ tasks' = tasks \cup DbTasks(c, a, "authenticated", "none")
    /\ UNCHANGED <<variant, now, accountsDb, reqs>>

\* client.on("ready")
OnReady(c) ==
    /\ provider[c].phase = "authenticated"
    /\ LET a == provider[c].acct
           w0 == [World EXCEPT !.prov[c].phase = "ready",
                               !.prov[Flag(c)].isReady = HasIsReady(variant)]
       IN  /\ Commit(WithStatus(broadcastEvent(w0, a, <<"ready", c>>), a, c))
           /\ tasks' = tasks \cup DbTasks(c, a, "ready", "none")
    /\ UNCHANGED <<variant, now, accountsDb, reqs>>

\* client.on("auth_failure")
OnAuthFailure(c) ==
    /\ provider[c].phase \in {"initializing", "qr"}
    /\ LET a == provider[c].acct
           w0 == [World EXCEPT !.prov[c].phase = "auth_failure"]
       IN  /\ Commit(WithStatus(broadcastEvent(w0, a, <<"auth_failure", c>>), a, c))
           /\ tasks' = tasks \cup DbTasks(c, a, "auth_failure", "none")
    /\ UNCHANGED <<variant, now, accountsDb, reqs>>

\* the handler deletes the registry entry itself, without awaiting anything
DeletesAtOnce(v) == v \in {"otp", "p5"}

\* client.on("disconnected")
OnDisconnected(c) ==
    /\ provider[c].phase \in {"authenticated", "ready"}
    /\ LET a == provider[c].acct
           w0 == [World EXCEPT !.prov[c].phase = "disconnected",
                               !.prov[Flag(c)].isReady = FALSE]
           w1 == WithStatus(broadcastEvent(w0, a, <<"disconnected", c>>), a, c)
       IN  /\ Commit(IF DeletesAtOnce(variant)
                     THEN [w1 EXCEPT !.wc[a] = NoClient]
                     ELSE w1)
           /\ tasks' = tasks \cup DbTasks(c, a, "disconnected", "delete")
                             \cup (IF variant \in SingleVariants /\ ~w1.threw
                                   THEN {[NoTask EXCEPT !.k = "timer", !.c = c,
                                                        !.a = a]}
                                   ELSE {})
    /\ UNCHANGED <<variant, now, accountsDb, reqs>>

\* an awaited findOneAndUpdate settles and the handler runs on
DbSettled(t, ok) ==
    /\ t \in tasks
    /\ t.k = "db"
    /\ tasks' = tasks \ {t}
    /\ accountsDb' = IF ok THEN FindOneAndUpdate(accountsDb, t.a, t.st, t.upsert)
                     ELSE accountsDb
    /\ LET w0 == IF ~ok /\ t.st = "initialized"
                 THEN broadcastEvent(World, t.a, <<"error", t.c>>)
                 ELSE World
       IN  Commit(IF t.then = "delete" /\ (ok \/ CatchesDb(variant))
                  THEN [w0 EXCEPT !.wc[t.a] = NoClient]
                  ELSE w0)
    /\ UNCHANGED <<variant, now, reqs>>

\* setTimeout(() => client.initialize(), 5000) of part_006 fires: `client`
\* is the variable of the module, read when the timer fires
TimerFires(t) ==
    /\ t \in tasks
    /\ t.k = "timer"
    /\ whatsappClients[t.a] # NoClient
    /\ provider[whatsappClients[t.a]].runs < MaxRuns
    /\ tasks' = tasks \ {t}
    /\ provider' = [provider EXCEPT ![whatsappClients[t.a]].phase = "initializing",
                                    ![whatsappClients[t.a]].init = "pending",
                                    ![whatsappClients[t.a]].runs = @ + 1]
    /\ UNCHANGED <<variant, now, whatsappClients, sseClients, chans, fsPaths,
                   accountsDb, reqs>>

\* client.initialize() resolves; only WhatsAppManager awaits it
InitializeResolves(c) ==
    /\ variant = "mgr"
    /\ provider[c].init = "pending"
    /\ provider[c].phase \notin {"initfailed", "destroyed"}
    /\ provider' = [provider EXCEPT ![c].init = "ok"]
    /\ reqs' = AnswerWaiting(reqs, "init", c, 200)
    /\ UNCHANGED <<variant, now, whatsappClients, sseClients, chans, fsPaths,
                   accountsDb, tasks>>

\* client.initialize() rejects
InitializeFails(c) ==
    /\ provider[c].phase = "initializing"
    /\ provider[c].init = "pending"
    /\ LET w0 == [World EXCEPT !.prov[c].phase = "initfailed",
                               !.prov[c].init = "failed"]
       IN  Commit(IF CatchesInit(variant)
                  THEN broadcastEvent(w0, provider[c].acct, <<"error", c>>)
                  ELSE w0)
    /\ reqs' = [i \in DOMAIN reqs |->
                  IF reqs[i].pc = "init" /\ reqs[i].c = c
                  THEN Fail(reqs, i, "io")[i]
                  ELSE reqs[i]]
    /\ UNCHANGED <<variant, now, accountsDb, tasks>>

Lifecycle ==
    \/ \E c \in DOMAIN provider : OnQr(c)
    \/ \E c \in DOMAIN provider : OnAuthenticated(c)
    \/ \E c \in DOMAIN provider : OnReady(c)
    \/ \E c \in DOMAIN provider : OnAuthFailure(c)
    \/ \E c \in DOMAIN provider : OnDisconnected(c)
    \/ \E c \in DOMAIN provider : InitializeFails(c)
    \/ \E c \in DOMAIN provider : InitializeResolves(c)

Settle ==
    \/ \E t \in tasks, ok \in BOOLEAN : QrConverted(t, ok)
    \/ \E t \in tasks, ok \in BOOLEAN : DbSettled(t, ok)
    \/ \E t \in tasks : TimerFires(t)

Streaming ==
    \/ \E a \in AccountIds, dt \in {0, 1} : Subscribe(a, dt)
    \/ \E a \in AccountIds : SubscribeMgr(a)
    \/ \E dt \in {0, 1} : SubscribeOne(dt)
    \/ \E r \in DOMAIN chans : ChannelBreak(r)
    \/ \E r \in DOMAIN chans : CloseNotify(r)

Registry ==
    \/ \E a \in AccountIds : Activate(a)
    \/ \E a \in AccountIds : ActivateMgr(a)
    \/ \E a \in AccountIds : LogoutStart(a)
    \/ \E rid \in DOMAIN reqs, ok \in BOOLEAN : LogoutLoggedOut(rid, ok)
    \/ \E rid \in DOMAIN reqs, ok \in BOOLEAN : LogoutDestroyed(rid, ok)
    \/ \E rid \in DOMAIN reqs, ok \in BOOLEAN : LogoutUpdated(rid, ok)
    \/ \E a \in AccountIds : RefreshStart(a)
    \/ \E rid \in DOMAIN reqs, ok \in BOOLEAN : RefreshDestroyed(rid, ok)

Accounts ==
    \/ \E a \in AccountIds : CreateStart(a)
    \/ \E a \in AccountIds : CreateMgr(a)
    \/ \E rid \in DOMAIN reqs, ok \in BOOLEAN : CreateFound(rid, ok)
    \/ \E rid \in DOMAIN reqs, ok \in BOOLEAN : CreateSaved(rid, ok)

Sending ==
    \/ \E a \in AccountIds, phone \in Phones : SendStart(a, phone)
    \/ \E rid \in DOMAIN reqs, ok \in BOOLEAN : SendRecordSaved(rid, ok)
    \/ \E rid \in DOMAIN reqs, ok \in BOOLEAN : SendSettled(rid, ok)
    \/ \E rid \in DOMAIN reqs, ok \in BOOLEAN : SendDelivered(rid, ok)
    \/ \E rid \in DOMAIN reqs, ok \in BOOLEAN : SendFailureSaved(rid, ok)

Bulk ==
    \/ \E messages \in Batches, forwards \in BOOLEAN : BulkStart(messages, forwards)
    \/ \E rid \in DOMAIN reqs, k \in 1..MaxMessages, i \in 1..MaxMessages,
          how \in Outcomes : BulkSendSettles(rid, k, i, how)
    \/ \E rid \in DOMAIN reqs, k \in 1..MaxMessages, forwards \in BOOLEAN :
          BulkDelayFires(rid, k, forwards)

Next ==
    \/ Sending
    \/ Bulk
    \/ Registry
    \/ Accounts
    \/ Streaming
    \/ Lifecycle
    \/ Settle

Spec == Init /\ [][Next]_vars

\* the broadcaster alone: the subscriptions of one account and the lifecycle
\* events they relay
SubscribeWatched(dt) == Subscribe(Default, dt) /\ Len(provider') <= OneClient

NextStream ==
    \/ \E dt \in {0, 1} : SubscribeWatched(dt)
    \/ \E dt \in {0, 1} : SubscribeOne(dt)
    \/ SubscribeMgr(Default)
    \/ \E r \in DOMAIN chans : ChannelBreak(r)
    \/ \E r \in DOMAIN chans : CloseNotify(r)
    \/ Lifecycle
    \/ Settle

SpecStream == Init /\ [][NextStream]_vars

\* the registry alone: activations of any account, with no subscriber
NextRegistry ==
    \/ \E a \in AccountIds : Activate(a)
    \/ \E a \in AccountIds : ActivateMgr(a)
    \/ Lifecycle
    \/ Settle

SpecRegistry == Init /\ [][NextRegistry]_vars

\* teardown: logout and refresh of the default account, and its activation
NextTeardown ==
    \/ Activate(Default)
    \/ ActivateMgr(Default)
    \/ \E a \in {Default, <<>>} : LogoutStart(a)
    \/ \E rid \in DOMAIN reqs, ok \in BOOLEAN : LogoutLoggedOut(rid, ok)
    \/ \E rid \in DOMAIN reqs, ok \in BOOLEAN : LogoutDestroyed(rid, ok)
    \/ \E rid \in DOMAIN reqs, ok \in BOOLEAN : LogoutUpdated(rid, ok)
    \/ RefreshStart(Default)
    \/ \E rid \in DOMAIN reqs, ok \in BOOLEAN : RefreshDestroyed(rid, ok)
    \/ Lifecycle
    \/ Settle

SpecTeardown == Init /\ [][NextTeardown]_vars

\* message sending: one account is activated, its client runs, requests send.
\* No handler gets past the save of its "sending" record, which the schema
\* rejects, so SendDelivered has no step to take here.
NextSend ==
    \/ \E a \in AccountIds, phone \in Phones : SendStart(a, phone)
    \/ \E rid \in DOMAIN reqs, ok \in BOOLEAN : SendRecordSaved(rid, ok)
    \/ \E rid \in DOMAIN reqs, ok \in BOOLEAN : SendSettled(rid, ok)
    \/ \E rid \in DOMAIN reqs, ok \in BOOLEAN : SendFailureSaved(rid, ok)
    \/ Activate(Default)
    \/ ActivateMgr(Default)
    \/ Lifecycle
    \/ Settle

SpecSend == Init /\ [][NextSend]_vars

\* the bulk endpoint: the one client runs, one request sends a batch
NextBulk ==
    \/ \E messages \in Batches, forwards \in BOOLEAN : BulkStart(messages, forwards)
    \/ \E rid \in DOMAIN reqs, k \in 1..MaxMessages, i \in 1..MaxMessages,
          how \in Outcomes : BulkSendSettles(rid, k, i, how)
    \/ \E rid \in DOMAIN reqs, k \in 1..MaxMessages, forwards \in BOOLEAN :
          BulkDelayFires(rid, k, forwards)
    \/ \E c \in DOMAIN provider : OnAuthenticated(c)
    \/ \E c \in DOMAIN provider : OnReady(c)
    \/ \E c \in DOMAIN provider : OnDisconnected(c)

SpecBulk == Init /\ [][NextBulk]_vars

\* the lifecycle of the boot client while the database is up and the QR
\* image can be generated: every awaited step succeeds
NextPersist ==
    \/ \E c \in DOMAIN provider : OnQr(c)
    \/ \E c \in DOMAIN provider : OnAuthenticated(c)
    \/ \E c \in DOMAIN provider : OnReady(c)
    \/ \E c \in DOMAIN provider : OnAuthFailure(c)
    \/ \E c \in DOMAIN provider : OnDisconnected(c)
    \/ \E t \in tasks : QrConverted(t, TRUE)
    \/ \E t \in tasks : DbSettled(t, TRUE)

SpecPersist == Init /\ [][NextPersist]_vars

\* the one-client backend with logout: its client disconnects and reconnects,
\* is logged out and re-created, and batches of one message arrive
NextReconnect ==
    \/ variant \in SingleVariants /\ \E c \in DOMAIN provider : OnQr(c)
    \/ variant \in SingleVariants /\ \E t \in tasks : QrConverted(t, TRUE)
    \/ variant \in SingleVariants /\ \E c \in DOMAIN provider : OnAuthenticated(c)
    \/ variant \in SingleVariants /\ \E c \in DOMAIN provider : OnReady(c)
    \/ variant \in SingleVariants /\ \E c \in DOMAIN provider : OnDisconnected(c)
    \/ \E t \in tasks : TimerFires(t)
    \/ variant \in SingleVariants /\ LogoutStart(Default)
    \/ variant \in SingleVariants
          /\ \E rid \in DOMAIN reqs, ok \in BOOLEAN : LogoutLoggedOut(rid, ok)
    \/ variant \in SingleVariants
          /\ \E rid \in DOMAIN reqs, ok \in BOOLEAN : LogoutDestroyed(rid, ok)
    \/ \E forwards \in BOOLEAN : BulkStart(<<Msg>>, forwards)

SpecReconnect == Init /\ [][NextReconnect]_vars

\* the broadcaster and the lifecycle, where every reconnect timer fires
SpecStreamFair == SpecStream /\ WF_vars(\E t \in tasks : TimerFires(t))

\* two accounts side by side: sessions are created by the events route,
\* live through their lifecycle and are torn down; of the writes to the
\* Account collection only the one a disconnect awaits before it deletes the
\* entry settles, the others stay pending
NextIsolation ==
    \/ \E a \in AccountIds : ~IsEmpty(a) /\ Subscribe(a, 0)
    \/ \E c \in DOMAIN provider : OnAuthenticated(c)
    \/ \E t \in tasks : t.then = "delete" /\ DbSettled(t, TRUE)
    \/ \E c \in DOMAIN provider : OnReady(c)
    \/ \E c \in DOMAIN provider : OnDisconnected(c)
    \/ \E a \in AccountIds : ~IsEmpty(a) /\ LogoutStart(a)
    \/ \E rid \in DOMAIN reqs : LogoutDestroyed(rid, TRUE)
    \/ \E a \in AccountIds : RefreshStart(a)
    \/ \E rid \in DOMAIN reqs : RefreshDestroyed(rid, TRUE)

SpecIsolation == Init /\ [][NextIsolation]_vars

\* one account whose session is torn down and replaced while streams stay
\* subscribed: subscriptions, broken connections, the lifecycle of the clients,
\* logout and refresh
NextHandover ==
    \/ \E dt \in {0, 1} : Subscribe(Default, dt)
    \/ \E dt \in {0, 1} : SubscribeOne(dt)
    \/ SubscribeMgr(Default)
    \/ \E r \in DOMAIN chans : ChannelBreak(r)
    \/ \E c \in DOMAIN provider : OnAuthenticated(c)
    \/ \E c \in DOMAIN provider : OnReady(c)
    \/ \E c \in DOMAIN provider : OnDisconnected(c)
    \/ \E t \in tasks : t.then = "delete" /\ DbSettled(t, TRUE)
    \/ LogoutStart(Default)
    \/ \E rid \in DOMAIN reqs : LogoutLoggedOut(rid, TRUE)
    \/ \E rid \in DOMAIN reqs : LogoutDestroyed(rid, TRUE)
    \/ RefreshStart(Default)
    \/ \E rid \in DOMAIN reqs : RefreshDestroyed(rid, TRUE)

SpecHandover == Init /\ [][NextHandover]_vars

\* account creation alone
NextAccounts ==
    \/ Accounts
    \/ Lifecycle
    \/ Settle

SpecAccounts == Init /\ [][NextAccounts]_vars

\* opening streams and activating accounts, and how client.initialize() ends:
\* what opening a stream does to the registry, and what a failing
\* initialization does to the streams and to the requests that await it
NextOpen ==
    \/ \E a \in AccountIds, dt \in {0, 1} : Subscribe(a, dt)
    \/ \E a \in AccountIds : SubscribeMgr(a)
    \/ \E dt \in {0, 1} : SubscribeOne(dt)
    \/ \E a \in AccountIds : Activate(a)
    \/ \E a \in AccountIds : ActivateMgr(a)
    \/ \E c \in DOMAIN provider : InitializeFails(c)
    \/ \E c \in DOMAIN provider : InitializeResolves(c)

SpecOpen == Init /\ [][NextOpen]_vars

(***************************************************************************)
(* Properties of the broadcaster.                                          *)
(***************************************************************************)
\* the stream is in the subscriber list of its account
Registered(r) ==
    \E i \in DOMAIN sseClients[chans[r].acct] :
        sseClients[chans[r].acct][i].res = r

\* this step wrote event ev to stream r
Got(r, ev) ==
    \E i \in (Len(chans[r].log) + 1)..Len(chans'[r].log) : chans'[r].log[i] = ev

\* this step is the "ready" handler of client c
ReadyStep(c) == provider[c].phase # "ready" /\ provider'[c].phase = "ready"

\* C3: when "ready" is published for an account, every registered subscriber
\* of the account whose stream is open receives it, wherever a subscriber whose
\* write fails stands in the iteration.
C3_FailingWriteSparesOthers ==
    [][\A c \in DOMAIN provider :
          ReadyStep(c) =>
             \A r \in DOMAIN chans :
                (chans[r].acct = provider[c].acct /\ chans[r].open /\ Registered(r))
                   => Got(r, <<"ready", c>>)]_vars

\* C4: no stream receives "authenticated" or "ready" of a client before the
\* "qr" of the same client.
C4_QrBeforeReady ==
    \A r \in DOMAIN chans :
       \A i, j \in DOMAIN chans[r].log :
          (i < j /\ chans[r].log[j][1] = "qr")
             => ~(/\ chans[r].log[i][1] \in {"authenticated", "ready"}
                  /\ chans[r].log[i][2] = chans[r].log[j][2])

\* the "disconnected" handler of client c has run to its end
DisconnectedHandled(c) ==
    /\ provider[c].phase = "disconnected"
    /\ ~\E t \in tasks : t.k = "db" /\ t.c = c /\ t.st = "disconnected"

\* C6: once the "disconnected" event of a registry client has been handled,
\* the registry no longer returns that client for its account, whether or not
\* the persistence update succeeded.
C6_DisconnectedLeavesRegistry ==
    \A c \in DOMAIN provider :
       (variant \in MultiVariants /\ DisconnectedHandled(c))
          => whatsappClients[provider[c].acct] # c

\* this step is the close handler of stream r
CloseStep(r) == ~chans[r].notified /\ chans'[r].notified

\* C10: closing one subscription removes that subscription only: every other
\* registered subscription of the account stays registered.
C10_CloseRemovesOnlyItself ==
    [][\A r \in DOMAIN chans :
          CloseStep(r) =>
             \A q \in DOMAIN chans :
                (q # r /\ Registered(q)) => Registered(q)']_vars

\* this step is the "ready" handler of client c and the write to stream r, a
\* registered stream of the client's account, is attempted and fails: no
\* registered stream before r in the list is closed
FailedWrite(r, c) ==
    /\ ReadyStep(c)
    /\ chans[r].acct = provider[c].acct
    /\ ~chans[r].open
    /\ LET subs == sseClients[chans[r].acct]
       IN  \E i \in DOMAIN subs :
              /\ subs[i].res = r
              /\ \A j \in 1..(i - 1) : chans[subs[j].res].open

\* C11: the subscriptions of an account that were opened and whose connection
\* has not gone away are all registered at once, and each of them receives the
\* "ready" event published for the account.
C11_MultipleSubscriptions ==
    [][\A r \in DOMAIN chans' :
          chans'[r].open =>
             /\ Registered(r)'
             /\ \A c \in DOMAIN provider :
                   (r \in DOMAIN chans /\ ReadyStep(c)
                       /\ chans[r].acct = provider[c].acct)
                      => Got(r, <<"ready", c>>)]_vars

\* C12: after a publish in which the write to a subscriber failed, and after
\* the close callback of a subscriber ran, that subscriber is no longer in
\* the subscriber list of its account.
C12_NoClosedSubscriberKept ==
    [][\A r \in DOMAIN chans :
          (CloseStep(r) \/ \E c \in DOMAIN provider : FailedWrite(r, c))
             => ~Registered(r)']_vars

\* this step opens an event subscription
SubscribeStep == Len(chans') > Len(chans)

\* the acknowledgement the route writes to the stream it opens
ConnectedAck == <<"connected", 0>>

\* C13: when a subscriber connects, the stream it opens receives nothing but
\* the "connected" acknowledgement, and the streams that were open before
\* receive nothing.
C13_NoReplay ==
    [][SubscribeStep =>
          /\ \A i \in DOMAIN chans'[Len(chans')].log :
                chans'[Len(chans')].log[i] = ConnectedAck
          /\ \A q \in DOMAIN chans : chans'[q].log = chans[q].log]_vars

\* C14: the first event a stream receives is "connected", and no later event
\* of the stream is.
C14_ConnectedFirstOnce ==
    \A r \in DOMAIN chans :
       chans[r].log # <<>> =>
          /\ chans[r].log[1][1] = "connected"
          /\ \A i \in DOMAIN chans[r].log :
                i > 1 => chans[r].log[i][1] # "connected"

\* what stream r had received before this step
OldLog(r) == IF r \in DOMAIN chans THEN chans[r].log ELSE <<>>

\* the published events stream r receives in this step
NewEntries(r) ==
    SelectSeq(SubSeq(chans'[r].log, Len(OldLog(r)) + 1, Len(chans'[r].log)),
              LAMBDA e : e # ConnectedAck)

\* the published events in a log
Published(log) == SelectSeq(log, LAMBDA e : e # ConnectedAck)

HandlerStep(a) ==
    \/ \E c \in DOMAIN provider :
          provider[c].acct = a /\ provider'[c].phase # provider[c].phase
    \/ \E t \in tasks : t \notin tasks' /\ t.a = a

Arrives(kind) == Len(reqs') > Len(reqs) /\ reqs'[Len(reqs')].kind = kind

\* C1: an activation of an account that has a registry entry, ready or not,
\* constructs no provider client and leaves the entry as it is.
C1_GetOrCreateIdempotent ==
    [][Arrives("activate") =>
          LET a == reqs'[Len(reqs')].a
          IN  whatsappClients[a] # NoClient =>
                 /\ Len(provider') = Len(provider)
                 /\ whatsappClients'[a] = whatsappClients[a]]_vars

\* this step ends the logout request rid, which tore down a client
LogoutEnds(rid) ==
    /\ reqs[rid].kind = "logout"
    /\ reqs[rid].c # NoClient
    /\ reqs[rid].pc # "done"
    /\ reqs'[rid].pc = "done"

\* C5: when a logout request is answered, the registry no longer holds the
\* client the request tore down, also when logout() or destroy() threw.
C5_TeardownFailureStillRemoves ==
    [][\A rid \in DOMAIN reqs :
          LogoutEnds(rid) => whatsappClients'[reqs[rid].a] # reqs[rid].c]_vars

\* this step is the logout handler running on after destroy() resolved
TornDown(rid) ==
    /\ reqs[rid].kind = "logout"
    /\ reqs[rid].pc = "destroy"
    /\ reqs'[rid].pc # "destroy"
    /\ reqs'[rid].resp # 500

\* C7: once logout has torn the client down and removed the session path, the
\* credentials the provider stored for the account are gone.
C7_LogoutRemovesCredentials ==
    [][\A rid \in DOMAIN reqs :
          TornDown(rid) => AuthPath(variant, reqs[rid].a) \notin fsPaths']_vars

\* !accountId, or /\s/.test(accountId)
InvalidId(a) == IsEmpty(a) \/ HasWhitespace(a)

\* C9: the registry never holds a client under an account identifier that is
\* empty or contains whitespace.
C9_NoSessionForInvalidId ==
    \A a \in AccountIds : InvalidId(a) => whatsappClients[a] = NoClient

\* C15: when the events route has run for an account, the registry holds a
\* client for that account.
C15_SubscribeCreatesSession ==
    [][SubscribeStep =>
          whatsappClients'[chans'[Len(chans')].acct] # NoClient]_vars

\* this step is client.initialize() of client c rejecting
InitFailStep(c) == provider[c].init = "pending" /\ provider'[c].init = "failed"

\* C17: when the initialization of a client fails, no request is answered
\* with the failure, and every registered subscriber of the account whose
\* stream is open receives an "error" event.
C17_InitFailureIsAnEvent ==
    [][\A c \in DOMAIN provider :
          InitFailStep(c) =>
             /\ \A rid \in DOMAIN reqs : reqs'[rid] = reqs[rid]
             /\ \A r \in DOMAIN chans :
                   (chans[r].acct = provider[c].acct /\ chans[r].open
                       /\ Registered(r))
                      => Got(r, <<"error", c>>)]_vars

(***************************************************************************)
(* Properties of the Account collection.                                   *)
(***************************************************************************)
\* this step is the handler of the event that takes client c to phase st
Emits(c, st) == provider[c].phase # st /\ provider'[c].phase = st

\* this step starts a findOneAndUpdate of the account of client c to status st
WritesStatus(c, st) ==
    \E t \in tasks' : t \notin tasks /\ t.k = "db" /\ t.c = c /\ t.st = st

\* C20: in a backend that keeps the Account collection, the handler of an
\* authenticated, ready, disconnected or auth_failure event starts the write
\* of that status, and the qr handler that publishes the QR code starts the
\* write of status initialized.
C20_EventsArePersisted ==
    [][HasDb(variant) =>
          \A c \in DOMAIN provider :
             /\ \A st \in {"authenticated", "ready", "disconnected", "auth_failure"} :
                   Emits(c, st) => WritesStatus(c, st)
             /\ (\E r \in DOMAIN chans : Got(r, <<"qr", c>>))
                   => WritesStatus(c, "initialized")]_vars

\* this step is the "disconnected" handler of client c, or the rest of it after
\* its awaited update, deleting the registry entry of account a
DisconnectDeletes(c, a) ==
    /\ provider[c].acct = a
    /\ whatsappClients[a] # NoClient
    /\ whatsappClients'[a] = NoClient
    /\ \/ provider[c].phase # "disconnected" /\ provider'[c].phase = "disconnected"
       \/ \E t \in tasks : t \notin tasks' /\ t.then = "delete" /\ t.c = c

\* C26: the "disconnected" handler of a client deletes the registry entry of
\* its account only when the entry holds that client.
C26_DisconnectSparesNewerClient ==
    [][\A c \in DOMAIN provider : \A a \in AccountIds :
          DisconnectDeletes(c, a) => whatsappClients[a] = c]_vars

\* the clients of account a that were constructed and are neither destroyed
\* nor disconnected
Live(a) ==
    {c \in DOMAIN provider :
        provider[c].acct = a /\ provider[c].phase \notin {"destroyed", "disconnected"}}

\* C27: an account has at most one live client, and a live client is the one
\* the registry holds for the account.
C27_OneLiveClient ==
    \A a \in AccountIds : \A c \in Live(a) : whatsappClients[a] = c

(***************************************************************************)
(* Properties of the REST surface.                                         *)
(***************************************************************************)
\* this step invokes client.sendMessage for request rid
Invokes(rid) ==
    /\ reqs'[rid].kind = "send"
    /\ reqs'[rid].sent
    /\ rid \in DOMAIN reqs => ~reqs[rid].sent

\* C2: client.sendMessage is invoked for a send-message request only on a
\* client that has reached ready and has not disconnected since.
C2_SendOnlyWhenReady ==
    [][\A rid \in DOMAIN reqs' :
          Invokes(rid) => provider[reqs'[rid].c].phase = "ready"]_vars

\* a step of the handler's try block failed for the request
FailedInTry(q) == q.kind = "send" /\ q.err \in {"io", "send", "validation"}

\* the handler of the request has run to its end, or has died on an exception
\* nothing catches
Finished(q) == q.pc \in {"done", "dead"}

\* C18: a send-message request for which a step of the try block failed is,
\* once its handler has finished, answered with the failure.
C18_FailedSendIsAnswered ==
    \A rid \in DOMAIN reqs :
       (FailedInTry(reqs[rid]) /\ Finished(reqs[rid])) => reqs[rid].resp = 500

\* a phone number of ten digits
ValidPhone(phone) == Len(Digits(phone)) = 10

\* C19: a send-message request with a valid phone number that arrived when
\* the client of the account was ready, and met no outage of the database or
\* the provider, has invoked client.sendMessage and is answered with success
\* once its handler has finished.
C19_ReadySendSucceeds ==
    \A rid \in DOMAIN reqs :
       (/\ reqs[rid].kind = "send"
        /\ reqs[rid].wasReady
        /\ ValidPhone(reqs[rid].phone)
        /\ Finished(reqs[rid])
        /\ reqs[rid].err \notin {"io", "send"})
          => (reqs[rid].sent /\ reqs[rid].resp = 200)

\* C21: in a backend that keeps Message records, a send-message request that
\* passed validation and whose first save met no database outage has stored
\* a record with status "sending"; no record is stored with a status other
\* than sending, delivered, failed.
C21_SendingRecordStored ==
    \A rid \in DOMAIN reqs :
       (/\ SavesRecord(variant)
        /\ reqs[rid].kind = "send"
        /\ reqs[rid].to # <<>>
        /\ reqs[rid].pc # "save"
        /\ reqs[rid].err # "io")
          => /\ reqs[rid].rec \in {"sending", "delivered"}
             /\ reqs[rid].failrec \in {"none", "failed"}

\* C22: a logout request that carries an account identifier is answered with
\* success, whatever the teardown of the client did.
C22_LogoutAlwaysSucceeds ==
    \A rid \in DOMAIN reqs :
       (/\ reqs[rid].kind = "logout"
        /\ ~IsEmpty(reqs[rid].a)
        /\ reqs[rid].pc = "done")
          => reqs[rid].resp = 200

\* this step runs the logout handler of request rid, which found no client
\* in the registry
IdleLogoutStep(rid) ==
    /\ reqs'[rid].kind = "logout"
    /\ ~IsEmpty(reqs'[rid].a)
    /\ reqs'[rid].c = NoClient
    /\ rid \in DOMAIN reqs => reqs[rid] # reqs'[rid]

\* C23: a logout of an account with no client in the registry leaves the
\* registry, the provider clients and the subscriber lists as they are, and
\* is answered with success.
C23_IdleLogoutIsNoOp ==
    [][\A rid \in DOMAIN reqs' :
          IdleLogoutStep(rid) =>
             /\ whatsappClients' = whatsappClients
             /\ provider' = provider
             /\ sseClients' = sseClients
             /\ reqs'[rid].pc = "done" => reqs'[rid].resp = 200]_vars

\* C8: where accounts are kept in the Account collection, of two answered
\* create requests for one account identifier that met no database outage, if
\* one succeeded the other was answered 400.
C8_OneCreateWins ==
    \A i, j \in DOMAIN reqs :
       (/\ CreateUsesDb(variant)
        /\ i # j
        /\ reqs[i].kind = "create" /\ reqs[j].kind = "create"
        /\ reqs[i].a = reqs[j].a
        /\ reqs[i].resp = 200
        /\ reqs[j].pc = "done" /\ reqs[j].err # "io")
          => reqs[j].resp = 400

(***************************************************************************)
(* Properties of the bulk endpoint.                                        *)
(***************************************************************************)
\* the fairness the claim about termination grants: every pending call of
\* sendMessageOrMedia settles and every pending delay timer fires
SpecBulkFair ==
    /\ SpecBulk
    /\ WF_vars(\E rid \in DOMAIN reqs, k \in 1..MaxMessages, i \in 1..MaxMessages,
                  how \in Outcomes : BulkSendSettles(rid, k, i, how))
    /\ WF_vars(\E rid \in DOMAIN reqs, k \in 1..MaxMessages, forwards \in BOOLEAN :
                  BulkDelayFires(rid, k, forwards))

\* C25: while a bulk request is processed, at most 5 (concurrency) of its
\* sendMessageOrMedia calls are in flight at any moment, however long the
\* messages array is.
C25_AtMostFiveInFlight ==
    \A rid \in DOMAIN reqs :
       Batch(rid) => Cardinality(reqs[rid].calls) <= concurrency

\* an array longer than the pool: its last element is in flight together
\* with four others, after one chain came back for it
C25_PoolSaturated ==
    \E rid \in DOMAIN reqs :
       /\ Batch(rid)
       /\ Len(reqs[rid].messages) > concurrency
       /\ reqs[rid].idx = Len(reqs[rid].messages)
       /\ Cardinality(reqs[rid].calls) = concurrency

\* no chain of the request is waiting for a call or for a delay
Settled(b) == \A k \in DOMAIN b.chains : b.chains[k] \in {"returned", "rejected"}

\* the entries of results that belong to element i
Entries(b, i) == CopiesIn(<<i, TRUE>>, b.results) + CopiesIn(<<i, FALSE>>, b.results)

\* C28: every element of the messages array is taken by exactly one worker
\* and attempted exactly once, and when the response is sent results holds
\* exactly one entry for each element (its length is the number of messages).
C28_EachMessageOnce ==
    \A rid \in DOMAIN reqs :
       Batch(rid) =>
          LET b == reqs[rid]
          IN  /\ \A i \in DOMAIN b.messages : b.taken[i] <= 1 /\ b.tried[i] <= 1
              /\ Settled(b) =>
                    \A i \in DOMAIN b.messages : b.taken[i] = 1 /\ b.tried[i] = 1
              /\ b.resp # 0 =>
                    /\ BagCardinality(b.results) = Len(b.messages)
                    /\ \A i \in DOMAIN b.messages : Entries(b, i) = 1

\* the request started its chains
BulkRunning(rid) == rid \in DOMAIN reqs /\ Batch(rid)

\* all chains returned and the response with results was sent
BulkAnswered(rid) ==
    /\ rid \in DOMAIN reqs
    /\ Batch(rid)
    /\ \A k \in DOMAIN reqs[rid].chains : reqs[rid].chains[k] = "returned"
    /\ reqs[rid].resp = 200

\* C29: a bulk request with a non-empty array terminates: if every call of
\* sendMessageOrMedia and every delay settles, all 5 workers finish and the
\* response with results is sent.
C29_BulkTerminates ==
    \A rid \in 1..MaxRequests : BulkRunning(rid) ~> BulkAnswered(rid)

\* C30: no message of a bulk request is handed to the provider client while
\* isReady is false: after a disconnected event the messages not yet started
\* are not sent.
C30_NoSendWhileNotReady ==
    \A rid \in DOMAIN reqs : Batch(rid) => reqs[rid].blind = {}

(***************************************************************************)
(* Properties of the persisted status.                                     *)
(***************************************************************************)
\* the status a handler writes for the event that put the client in phase ph
StatusOf(v, ph) ==
    IF ph = "qr" /\ QrPersists(v) THEN "initialized"
    ELSE IF ph # "qr" /\ Persists(v, ph) THEN ph
    ELSE ""

\* no handler of the account is waiting for toDataURL or findOneAndUpdate
Quiet(a) == \A t \in tasks : t.a # a \/ t.k \notin {"qr", "db"}

\* C31: once every persistence write started by the lifecycle handlers of an
\* account has completed, the persisted Account status is the status of the
\* most recent lifecycle event of its client: the write of an earlier event
\* never overwrites the status of a later one.
C31_LatestStatusPersisted ==
    \A c \in DOMAIN provider :
       LET a == provider[c].acct
       IN  (/\ Quiet(a)
            /\ accountsDb[a].n > 0
            /\ StatusOf(variant, provider[c].phase) # "")
              => accountsDb[a].status = StatusOf(variant, provider[c].phase)

(***************************************************************************)
(* Properties of the one-client backends.                                  *)
(***************************************************************************)
\* C33: initialize is never invoked on a client that is already initializing
\* or initialized: a client is initialized when it is constructed and again
\* at most once for each disconnected event it emitted.
C33_InitializeOncePerDisconnect ==
    [][\A c \in DOMAIN provider :
          provider'[c].runs > provider[c].runs
             => provider[c].phase = "disconnected"]_vars

\* C34: after a successful POST /logout, and until the re-created client
\* emits ready, a bulk request is rejected as not ready and no call reaches
\* the provider client.
C34_NotReadyAfterLogout ==
    [][\A rid \in DOMAIN reqs' \ DOMAIN reqs :
          (/\ reqs'[rid].kind = "bulk"
           /\ whatsappClients[Default] \notin {NoClient, 1}
           /\ provider[whatsappClients[Default]].phase
                 \in {"initializing", "qr", "authenticated"})
             => /\ reqs'[rid].resp = 503
                /\ "chains" \notin DOMAIN reqs'[rid]]_vars

\* the client of a one-client backend emitted disconnected after its n-th
\* initialize and no later one has been called
Dropped(c, n) ==
    /\ variant \in SingleVariants
    /\ c \in DOMAIN provider
    /\ provider[c].phase = "disconnected"
    /\ provider[c].runs = n

\* C32: in the one-client backends with auto-reconnect every disconnected
\* event is eventually followed by a call of initialize on the current
\* client, and isReady stays false from the disconnected event until the
\* next ready event.
C32_ReconnectAfterDisconnect ==
    /\ \A c \in 1..MaxClients : \A n \in 1..(MaxRuns - 1) :
          Dropped(c, n) ~>
             (whatsappClients[Default] # NoClient
                 /\ provider[whatsappClients[Default]].runs > n)
    /\ [](\A c \in DOMAIN provider :
            (/\ variant \in SingleVariants
             /\ whatsappClients[Default] = c
             /\ \/ provider[c].phase = "disconnected"
                \/ provider[c].runs > 1
                      /\ provider[c].phase \in {"initializing", "qr", "authenticated"})
               => ~isReady)

\* C36: after the initialization of a client has failed the client stays
\* registered: a later getOrCreate for its account (an activation, or the
\* events route) returns that client and starts no initialization.
C36_FailedClientStaysRegistered ==
    [][\A a \in AccountIds :
          (/\ whatsappClients[a] # NoClient
           /\ provider[whatsappClients[a]].phase = "initfailed"
           /\ \/ Arrives("activate") /\ reqs'[Len(reqs')].a = a
              \/ SubscribeStep /\ chans'[Len(chans')].acct = a)
             => /\ whatsappClients'[a] = whatsappClients[a]
                /\ Len(provider') = Len(provider)
                /\ provider'[whatsappClients[a]].runs
                      = provider[whatsappClients[a]].runs]_vars

\* what belongs to account a changes in this step: its registry entry, its
\* subscriber list, a client constructed for it (its ready flag included), or
\* what one of its streams has been sent
Touched(a) ==
    \/ whatsappClients'[a] # whatsappClients[a]
    \/ sseClients'[a] # sseClients[a]
    \/ \E c \in DOMAIN provider' :
          provider'[c].acct = a /\ (c \notin DOMAIN provider \/ provider'[c] # provider[c])
    \/ \E r \in DOMAIN chans' :
          chans'[r].acct = a /\ (r \notin DOMAIN chans \/ chans'[r] # chans[r])

TeardownStep(a) ==
    \/ \E c \in DOMAIN provider :
          /\ provider[c].acct = a
          /\ provider[c].phase \notin {"disconnected", "destroyed"}
          /\ provider'[c].phase \in {"disconnected", "destroyed"}
    \/ whatsappClients[a] # NoClient /\ whatsappClients'[a] = NoClient

\* C38: a logout, a refresh or a "disconnected" event removes no subscriber
\* of the account whose stream is open and adds none, and when a client
\* constructed later for the account publishes "ready", every subscriber of
\* the account whose stream is still open receives it.
C38_TeardownKeepsSubscribers ==
    [][/\ \A a \in AccountIds : TeardownStep(a) =>
             /\ \A i \in DOMAIN sseClients[a] :
                   chans[sseClients[a][i].res].open
                      => \E j \in DOMAIN sseClients'[a] :
                            sseClients'[a][j] = sseClients[a][i]
             /\ \A j \in DOMAIN sseClients'[a] :
                   \E i \in DOMAIN sseClients[a] :
                      sseClients'[a][j] = sseClients[a][i]
       /\ \A c \in DOMAIN provider :
             (c > 1 /\ ReadyStep(c)) =>
                \A r \in DOMAIN chans :
                   (chans[r].acct = provider[c].acct /\ chans[r].open /\ Registered(r))
                      => Got(r, <<"ready", c>>)]_vars

\* this step answers request rid, a POST /api/accounts, with an error
CreateRefused(rid) ==
    /\ reqs'[rid].kind = "create"
    /\ reqs'[rid].resp \in {400, 500}
    /\ (rid \in DOMAIN reqs => reqs[rid].resp \notin {400, 500})

\* C39: a POST /api/accounts that is answered 400 or 500 has constructed no
\* provider client, and the step that answers it leaves the session registry
\* as it was.
C39_RefusedCreateConstructsNothing ==
    [][\A rid \in DOMAIN reqs' :
          CreateRefused(rid) =>
             /\ reqs'[rid].c = NoClient
             /\ whatsappClients' = whatsappClients
             /\ Len(provider') = Len(provider)]_vars

\* the country code the deployment puts in front of a number without one
DefaultCountryCode(v) == IF v \in {"srvA", "srvC"} THEN <<"5", "5">> ELSE <<"9", "1">>

\* the digits with the country code in front exactly when they do not start
\* with it
Normalized(v, d) ==
    IF StartsWith(d, DefaultCountryCode(v)) THEN d ELSE DefaultCountryCode(v) \o d

\* C40: a send-message request whose phone has fewer than ten digits is
\* answered 400, is never handed to the provider and leaves no Message
\* record; any other request that gets past the checks of the session carries
\* the chat id made of the digits, with the country code in front exactly
\* when they do not start with it, and "@c.us" - and normalizing that number
\* again changes nothing.
C40_PhoneNormalized ==
    \A rid \in DOMAIN reqs :
       reqs[rid].kind = "send" =>
          LET q == reqs[rid]
              d == Digits(q.phone)
          IN  IF Len(d) < 10
              THEN /\ q.resp = 400
                   /\ ~q.sent
                   /\ q.rec = "none" /\ q.failrec = "none"
              ELSE q.resp # 400 =>
                      /\ q.to = Normalized(variant, d) \o <<"@c.us">>
                      /\ FormatPhone(variant, Normalized(variant, d)) = q.to

====
